---- MODULE Spec2Model ----
(***************************************************************************)
(* A model of wtf-prometheus-agent: the Bound predicates (src/bound.rs),   *)
(* the per-endpoint ElementHealth engine (src/element.rs) and the          *)
(* AlertChecker (src/alert.rs).                                            *)
(*                                                                         *)
(* Numbers.  An f64 is modelled as a record [n, d] with d >= 0: d > 0 is   *)
(* the finite value n/d, d = 0 is +Inf (n > 0), -Inf (n < 0) or NaN        *)
(* (n = 0).  Finite arithmetic is exact (rounding is not modelled); the    *)
(* IEEE results of x/0 and of operations on Inf and NaN are modelled.      *)
(* A chrono DateTime<Utc> and a chrono Duration are integers counting      *)
(* microseconds.                                                           *)
(***************************************************************************)
EXTENDS Integers, Sequences, FiniteSets, TLC

\* ------------------------------------------------------------------ bounds
MaxNum == 2
MaxTime == 2
MaxPeriod == 2
MaxBuckets == 1
MaxFilters == 2
MaxSamples == 2
MaxAlertFilters == 2
MaxAlerts == 2

SeqUpTo(S, k) == UNION {[1..j -> S] : j \in 0..k}

\* ------------------------------------------------------------- f64 values
Fin(k) == [n |-> k, d |-> 1]
PosInf == [n |-> 1, d |-> 0]
NegInf == [n |-> -1, d |-> 0]
NaN == [n |-> 0, d |-> 0]

IsNaN(x) == x.d = 0 /\ x.n = 0
IsFinite(x) == x.d > 0
Sign(k) == IF k > 0 THEN 1 ELSE IF k < 0 THEN -1 ELSE 0

\* x - y on f64
FSub(x, y) ==
    IF IsNaN(x) \/ IsNaN(y) THEN NaN
    ELSE IF IsFinite(x) /\ IsFinite(y) THEN [n |-> x.n * y.d - y.n * x.d, d |-> x.d * y.d]
    ELSE IF IsFinite(x) THEN [n |-> -Sign(y.n), d |-> 0]
    ELSE IF IsFinite(y) THEN [n |-> Sign(x.n), d |-> 0]
    ELSE IF Sign(x.n) = Sign(y.n) THEN NaN
    ELSE [n |-> Sign(x.n), d |-> 0]

\* x / (k as f64) on f64, k an i64
FDivInt(x, k) ==
    IF IsNaN(x) THEN NaN
    ELSE IF k = 0 THEN [n |-> Sign(x.n), d |-> 0]
    ELSE IF IsFinite(x) THEN [n |-> x.n * Sign(k), d |-> x.d * k * Sign(k)]
    ELSE [n |-> Sign(x.n) * Sign(k), d |-> 0]

\* x < y on f64: false when either side is NaN
FLt(x, y) ==
    /\ ~IsNaN(x)
    /\ ~IsNaN(y)
    /\ IF IsFinite(x) /\ IsFinite(y) THEN x.n * y.d < y.n * x.d
       ELSE IF IsFinite(x) THEN y.n > 0
       ELSE IF IsFinite(y) THEN x.n < 0
       ELSE x.n < 0 /\ y.n > 0

\* x > y on f64
FGt(x, y) == FLt(y, x)

\* ---------------------------------------------------- Option, Value, Bound
None == [some |-> FALSE]
Some(x) == [some |-> TRUE, val |-> x]

Counter(x) == [kind |-> "Counter", num |-> x]
Gauge(x) == [kind |-> "Gauge", num |-> x]
Histogram(h) == [kind |-> "Histogram", buckets |-> h]
Summary == [kind |-> "Summary"]
Untyped == [kind |-> "Untyped"]
HistogramCount(lt, c) == [less_than |-> lt, count |-> c]

AbsLower(l) == [kind |-> "AbsLower", lower_bound |-> l]
AbsUpper(u) == [kind |-> "AbsUpper", upper_bound |-> u]
RateLower(inc, p) == [kind |-> "RateLower", min_increment |-> inc, time_period |-> p]
RateUpper(inc, p) == [kind |-> "RateUpper", max_increment |-> inc, time_period |-> p]

\* is_relative answering true for every bound
is_relative_abs_too(bound) == TRUE

is_relative(bound) ==
    CASE bound.kind \in {"AbsLower", "AbsUpper"} -> FALSE
      [] bound.kind \in {"RateLower", "RateUpper"} -> TRUE

\* Duration::num_microseconds().unwrap(): a Duration is its microsecond count
num_microseconds(dur) == dur

\* diffs with the increment taken as old - new
diffs_reversed(value, time, old_value, old_time) ==
    IF value.kind \notin {"Counter", "Gauge"} THEN None
    ELSE IF ~old_value.some THEN None
    ELSE IF old_value.val.kind \notin {"Counter", "Gauge"} THEN None
    ELSE IF ~old_time.some THEN None
    ELSE Some([increment |-> FSub(old_value.val.num, value.num),
               dur |-> time - old_time.val])

diffs(value, time, old_value, old_time) ==
    IF value.kind \notin {"Counter", "Gauge"} THEN None
    ELSE IF ~old_value.some THEN None
    ELSE IF old_value.val.kind \notin {"Counter", "Gauge"} THEN None
    ELSE IF ~old_time.some THEN None
    ELSE Some([increment |-> FSub(value.num, old_value.val.num),
               dur |-> time - old_time.val])

\* h.iter().any(|HistogramCount { less_than, count }| less_than < lower_bound && count > 0.)
any_bucket_below(h, lower_bound) ==
    \E i \in 1..Len(h) : FLt(h[i].less_than, lower_bound) /\ FGt(h[i].count, Fin(0))

\* h.iter().any(|HistogramCount { less_than, count }| less_than > upper_bound && count > 0.)
any_bucket_above(h, upper_bound) ==
    \E i \in 1..Len(h) : FGt(h[i].less_than, upper_bound) /\ FGt(h[i].count, Fin(0))

\* check_abs with AbsUpper on a scalar triggering at the limit too
check_abs_inclusive(bound, value) ==
    CASE bound.kind = "AbsLower" ->
           (CASE value.kind = "Counter" -> FALSE
              [] value.kind = "Gauge" -> FLt(value.num, bound.lower_bound)
              [] value.kind = "Histogram" -> any_bucket_below(value.buckets, bound.lower_bound)
              [] OTHER -> FALSE)
      [] bound.kind = "AbsUpper" ->
           (CASE value.kind \in {"Counter", "Gauge"} -> ~FLt(value.num, bound.upper_bound)
              [] value.kind = "Histogram" -> any_bucket_above(value.buckets, bound.upper_bound)
              [] OTHER -> FALSE)

\* Bound::check, the AbsLower and AbsUpper arms
check_abs(bound, value) ==
    CASE bound.kind = "AbsLower" ->
           (CASE value.kind = "Counter" -> FALSE
              [] value.kind = "Gauge" -> FLt(value.num, bound.lower_bound)
              [] value.kind = "Histogram" -> any_bucket_below(value.buckets, bound.lower_bound)
              [] value.kind = "Summary" -> FALSE
              [] OTHER -> FALSE)
      [] bound.kind = "AbsUpper" ->
           (CASE value.kind \in {"Counter", "Gauge"} -> FGt(value.num, bound.upper_bound)
              [] value.kind = "Histogram" -> any_bucket_above(value.buckets, bound.upper_bound)
              [] value.kind = "Summary" -> FALSE
              [] OTHER -> FALSE)

\* Bound::check, the RateLower and RateUpper arms
check_rate(bound, value, time, old_value, old_time) ==
    LET d == diffs(value, time, old_value, old_time) IN
    IF ~d.some THEN FALSE
    ELSE CASE bound.kind = "RateLower" ->
                LET rate_thresh == FDivInt(bound.min_increment, num_microseconds(bound.time_period))
                    obs_rate == FDivInt(d.val.increment, num_microseconds(d.val.dur))
                IN FLt(obs_rate, rate_thresh)
           [] bound.kind = "RateUpper" ->
                LET rate_thresh == FDivInt(bound.max_increment, num_microseconds(bound.time_period))
                    obs_rate == FDivInt(d.val.increment, num_microseconds(d.val.dur))
                IN FGt(obs_rate, rate_thresh)

\* Bound::check
check(bound, value, time, old_value, old_time) ==
    IF bound.kind \in {"AbsLower", "AbsUpper"}
    THEN check_abs(bound, value)
    ELSE check_rate(bound, value, time, old_value, old_time)

\* ------------------------------------------------------------ ElementHealth
\* prometheus_parse::Sample, without its labels: two samples of one scrape may
\* carry the same metric name (they differ in labels only).
Sample(m, v, t) == [metric |-> m, value |-> v, timestamp |-> t]
Filter(m, b) == [metric_name |-> m, trigger |-> b]

EmptyMap == [k \in {} |-> None]

\* the fold of ElementHealth::new: acc.entry(metric_name).or_default().push(trigger)
RECURSIVE new_filter_set(_, _)
new_filter_set(filters, acc) ==
    IF filters = <<>> THEN acc
    ELSE LET f == Head(filters)
             pushed == IF f.metric_name \in DOMAIN acc
                       THEN [acc EXCEPT ![f.metric_name] = Append(@, f.trigger)]
                       ELSE acc @@ (f.metric_name :> <<f.trigger>>)
         IN new_filter_set(Tail(filters), pushed)

\* check_bound with the is_relative test lost and the stored sample checked
\* in place of the current one
check_bound_on_stored(bound, rs, sample) ==
    LET existing == IF sample.metric \in DOMAIN rs THEN rs[sample.metric] ELSE sample
    IN [res |-> check(bound, existing.value, existing.timestamp,
                      Some(existing.value), Some(existing.timestamp)),
        state |-> IF sample.metric \in DOMAIN rs
                  THEN [rs EXCEPT ![sample.metric] = sample]
                  ELSE rs @@ (sample.metric :> sample)]

\* check_bound dropping the stored sample of a rate bound that triggers
check_bound_forgets(bound, rs, sample) ==
    IF is_relative(bound)
    THEN LET existing == IF sample.metric \in DOMAIN rs THEN rs[sample.metric] ELSE sample
             res == check(bound, sample.value, sample.timestamp,
                          Some(existing.value), Some(existing.timestamp))
         IN [res |-> res,
             state |-> IF res
                       THEN [m \in DOMAIN rs \ {sample.metric} |-> rs[m]]
                       ELSE IF sample.metric \in DOMAIN rs
                       THEN [rs EXCEPT ![sample.metric] = sample]
                       ELSE rs @@ (sample.metric :> sample)]
    ELSE [res |-> check(bound, sample.value, sample.timestamp, None, None),
          state |-> rs]

\* the closure given to bounds.iter().any() in check_filters: one bound on one
\* sample; res is the closure's value, state is relative_state after it
check_bound(bound, rs, sample) ==
    IF is_relative(bound)
    THEN LET existing == IF sample.metric \in DOMAIN rs THEN rs[sample.metric] ELSE sample
             old_value == existing.value
             old_time == existing.timestamp
         IN [res |-> check(bound, sample.value, sample.timestamp, Some(old_value), Some(old_time)),
             state |-> IF sample.metric \in DOMAIN rs
                       THEN [rs EXCEPT ![sample.metric] = sample]
                       ELSE rs @@ (sample.metric :> sample)]
    ELSE [res |-> check(bound, sample.value, sample.timestamp, None, None),
          state |-> rs]

\* bounds.iter().any(..): stops at the first bound whose closure returns true
RECURSIVE any_bound(_, _, _)
any_bound(bounds, rs, sample) ==
    IF bounds = <<>> THEN [res |-> FALSE, state |-> rs]
    ELSE LET first == check_bound(Head(bounds), rs, sample)
         IN IF first.res THEN first
            ELSE any_bound(Tail(bounds), first.state, sample)

\* the closure given to .filter() in check_filters: one sample
filter_sample(fs, rs, sample) ==
    IF sample.metric \in DOMAIN fs
    THEN any_bound(fs[sample.metric], rs, sample)
    ELSE [res |-> FALSE, state |-> rs]

\* check_filters collecting the retained samples in reverse
RECURSIVE check_filters_reversed(_, _, _)
check_filters_reversed(fs, rs, samples) ==
    IF samples = <<>> THEN [result |-> <<>>, state |-> rs]
    ELSE LET first == filter_sample(fs, rs, Head(samples))
             rest == check_filters_reversed(fs, first.state, Tail(samples))
         IN [result |-> IF first.res THEN rest.result \o <<Head(samples)>> ELSE rest.result,
             state |-> rest.state]

\* ElementHealth::check_filters: samples.into_iter().filter(..).collect()
RECURSIVE check_filters(_, _, _)
check_filters(fs, rs, samples) ==
    IF samples = <<>> THEN [result |-> <<>>, state |-> rs]
    ELSE LET first == filter_sample(fs, rs, Head(samples))
             rest == check_filters(fs, first.state, Tail(samples))
         IN [result |-> IF first.res THEN <<Head(samples)>> \o rest.result ELSE rest.result,
             state |-> rest.state]

\* -------------------------------------------------------------- AlertChecker
AlertFilter(nm, lbls) == [name |-> nm, labels |-> lbls]
Alert(lbls, st) == [labels |-> lbls, state |-> st]

\* Alert::check without the test of the alert's state
alert_check_any_state(alert, filter) ==
    IF "alertname" \notin DOMAIN alert.labels THEN FALSE
    ELSE IF alert.labels["alertname"] # filter.name THEN FALSE
    ELSE \A filter_label_name \in DOMAIN filter.labels :
            /\ filter_label_name \in DOMAIN alert.labels
            /\ filter.labels[filter_label_name] = alert.labels[filter_label_name]

\* Alert::check
alert_check(alert, filter) ==
    IF "alertname" \notin DOMAIN alert.labels THEN FALSE
    ELSE IF alert.labels["alertname"] # filter.name THEN FALSE
    ELSE /\ alert.state = "firing"
         /\ IF DOMAIN filter.labels # {}
            THEN \A filter_label_name \in DOMAIN filter.labels :
                    /\ filter_label_name \in DOMAIN alert.labels
                    /\ filter.labels[filter_label_name] = alert.labels[filter_label_name]
            ELSE TRUE

\* alerts.into_iter().filter(|a| self.alert_set.iter().any(|f| a.check(f))).collect()
RECURSIVE filter_alerts(_, _)
filter_alerts(alert_set, alerts) ==
    IF alerts = <<>> THEN <<>>
    ELSE LET a == Head(alerts)
             keep == \E i \in 1..Len(alert_set) : alert_check(a, alert_set[i])
         IN IF keep THEN <<a>> \o filter_alerts(alert_set, Tail(alerts))
            ELSE filter_alerts(alert_set, Tail(alerts))

\* AlertChecker::check without the test of the response's status
alerts_check_ignores_status(alert_set, fetched) ==
    IF fetched.kind # "response" THEN [outcome |-> "err", alerts |-> <<>>]
    ELSE [outcome |-> "ok", alerts |-> filter_alerts(alert_set, fetched.alerts)]

\* AlertChecker::check after the body is read: fetched is the outcome of the
\* request and of serde_json::from_str
alerts_check(alert_set, fetched) ==
    IF fetched.kind # "response" THEN [outcome |-> "err", alerts |-> <<>>]
    ELSE IF fetched.status # "success" THEN [outcome |-> "err", alerts |-> <<>>]
    ELSE [outcome |-> "ok", alerts |-> filter_alerts(alert_set, fetched.alerts)]

\* ------------------------------------------------------------------- state
VARIABLES
    filter_set,      \* ElementHealth.filter_set: metric name -> sequence of Bound
    relative_state,  \* ElementHealth.relative_state: metric name -> Sample
    latest,          \* history: metric name with a rate bound -> the last sample of
                     \* that name that any call of check_filters was given
    compared,        \* history: the metric names for which the closure of any() has
                     \* reached a rate bound in some call of check_filters
    epc,             \* "idle", or "returned" while the caller holds a call's result
    scrape,          \* the samples the call in progress parsed
    pre_state,       \* relative_state as that call found it
    result,          \* the Vec<Sample> that call returned
    outcome,         \* "ok", "err" (or "none" when idle)
    alert_set,       \* AlertChecker.alert_set: sequence of AlertFilter
    apc,             \* "idle" or "returned"
    fetched,         \* what the alerts endpoint answered to the call in progress
    alerts_out,      \* the Vec<Alert> that call returned
    alert_outcome,   \* "ok", "err" (or "none" when idle)
    bpc,             \* "ready" or "done"
    bargs,           \* the arguments of one call of Bound::check
    bres             \* its value

engine_vars == <<filter_set, relative_state, latest, compared, epc, scrape, pre_state, result, outcome>>
alert_vars == <<alert_set, apc, fetched, alerts_out, alert_outcome>>
bound_vars == <<bpc, bargs, bres>>
vars == <<engine_vars, alert_vars, bound_vars>>

\* ------------------------------------------------------------------ inputs
MetricNames == {"a", "b"}
EngineTimes == {0, 1}
EngineValues == {Gauge(Fin(0)), Gauge(Fin(MaxNum))}
EngineBounds == {AbsUpper(Fin(1)), RateUpper(Fin(1), 1), RateLower(Fin(1), 1)}
Filters == {Filter(m, b) : m \in MetricNames, b \in EngineBounds}
Samples == {Sample(m, v, t) : m \in MetricNames, v \in EngineValues, t \in EngineTimes}
Scrapes == SeqUpTo(Samples, MaxSamples)

LabelMaps(names, jobs) ==
    {[k \in {} |-> ""]}
      \cup {("alertname" :> n) : n \in names}
      \cup {("job" :> j) : j \in jobs}
      \cup {("alertname" :> n) @@ ("job" :> j) : n \in names, j \in jobs}
Alerts == {Alert(l, st) : l \in LabelMaps({"Foo", "Bar"}, {"x", "y"}), st \in {"firing", "pending"}}
AlertFilters == {AlertFilter(nm, l) : nm \in {"Foo", "Bar"}, l \in LabelMaps({"Foo"}, {"x"})}
Fetched ==
    {[kind |-> "request_err"], [kind |-> "json_err"]}
      \cup {[kind |-> "response", status |-> st, alerts |-> al] :
              st \in {"success", "error"}, al \in SeqUpTo(Alerts, MaxAlerts)}

Times == 0..MaxTime
Floats == {Fin(k) : k \in -1..MaxNum} \cup {PosInf, NaN}
Limits == {Fin(k) : k \in 0..MaxNum}
Periods == 0..MaxPeriod
Buckets == {HistogramCount(lt, c) : lt \in {Fin(0), Fin(MaxNum), PosInf}, c \in {Fin(0), Fin(1)}}
ScalarValues == {Counter(x) : x \in Floats} \cup {Gauge(x) : x \in Floats}
Values == ScalarValues \cup {Histogram(h) : h \in SeqUpTo(Buckets, MaxBuckets)} \cup {Summary, Untyped}
OldValues == {None} \cup {Some(v) : v \in ScalarValues \cup {Histogram(<<>>), Summary}}
OldTimes == {None} \cup {Some(t) : t \in Times}
Bounds ==
    {AbsLower(l) : l \in Limits} \cup {AbsUpper(l) : l \in Limits}
      \cup {RateLower(l, p) : l \in Limits, p \in Periods}
      \cup {RateUpper(l, p) : l \in Limits, p \in Periods}

\* -------------------------------------------------------------------- Init
EngineIdle ==
    /\ epc = "idle"
    /\ scrape = <<>>
    /\ pre_state = EmptyMap
    /\ result = <<>>
    /\ outcome = "none"

\* ElementHealth::new
EngineInit ==
    /\ \E filters \in SeqUpTo(Filters, MaxFilters) :
          filter_set = new_filter_set(filters, EmptyMap)
    /\ relative_state = EmptyMap
    /\ latest = EmptyMap
    /\ compared = {}
    /\ EngineIdle

EngineOff ==
    /\ filter_set = EmptyMap
    /\ relative_state = EmptyMap
    /\ latest = EmptyMap
    /\ compared = {}
    /\ EngineIdle

AlertIdle ==
    /\ apc = "idle"
    /\ fetched = [kind |-> "none"]
    /\ alerts_out = <<>>
    /\ alert_outcome = "none"

\* AlertChecker::new
AlertInit ==
    /\ alert_set \in SeqUpTo(AlertFilters, MaxAlertFilters)
    /\ AlertIdle

AlertOff ==
    /\ alert_set = <<>>
    /\ AlertIdle

BoundInit ==
    /\ bpc = "ready"
    /\ bargs \in [bound : Bounds, value : Values, time : Times,
                  old_value : OldValues, old_time : OldTimes]
    /\ bres = FALSE

BoundOff ==
    /\ bpc = "off"
    /\ bargs = None
    /\ bres = FALSE

Init == EngineInit /\ AlertOff /\ BoundOff
InitAlert == EngineOff /\ AlertInit /\ BoundOff
InitBound == EngineOff /\ AlertOff /\ BoundInit

\* ----------------------------------------------------------------- actions
\* the two Rate variants of Bound
IsRate(b) == b.kind \in {"RateLower", "RateUpper"}

\* metric name m has a rate bound configured
HasRate(fs, m) == m \in DOMAIN fs /\ \E i \in 1..Len(fs[m]) : IsRate(fs[m][i])

RECURSIVE LatestAfter(_, _, _)
LatestAfter(fs, lt, samples) ==
    IF samples = <<>> THEN lt
    ELSE LET s == Head(samples)
             lt2 == IF ~HasRate(fs, s.metric) THEN lt
                    ELSE IF s.metric \in DOMAIN lt THEN [lt EXCEPT ![s.metric] = s]
                    ELSE lt @@ (s.metric :> s)
         IN LatestAfter(fs, lt2, Tail(samples))

\* any() reaches a rate bound of the sample's metric: the bounds before the
\* first rate bound are absolute and none of them triggers on the sample
ReachesRateBound(fs, s) ==
    /\ s.metric \in DOMAIN fs
    /\ \E j \in 1..Len(fs[s.metric]) :
          /\ IsRate(fs[s.metric][j])
          /\ \A k \in 1..(j - 1) :
                /\ ~IsRate(fs[s.metric][k])
                /\ ~check(fs[s.metric][k], s.value, s.timestamp, None, None)

\* ElementHealth::check emptying relative_state when the collection fails
ElementCheckResetsOnError ==
    /\ epc = "idle"
    /\ \E collected \in {[ok |-> FALSE]} \cup {[ok |-> TRUE, samples |-> sc] : sc \in Scrapes} :
          IF collected.ok
          THEN LET r == check_filters(filter_set, relative_state, collected.samples) IN
               /\ scrape' = collected.samples
               /\ result' = r.result
               /\ relative_state' = r.state
               /\ latest' = LatestAfter(filter_set, latest, collected.samples)
               /\ compared' = compared \cup
                     {collected.samples[i].metric : i \in
                        {k \in 1..Len(collected.samples) :
                            ReachesRateBound(filter_set, collected.samples[k])}}
               /\ outcome' = "ok"
          ELSE /\ scrape' = <<>>
               /\ result' = <<>>
               /\ outcome' = "err"
               /\ relative_state' = EmptyMap
               /\ UNCHANGED <<latest, compared>>
    /\ pre_state' = relative_state
    /\ epc' = "returned"
    /\ UNCHANGED <<filter_set, alert_vars, bound_vars>>

\* ElementHealth::check: collect_prometheus_metrics().await? then check_filters
ElementCheck ==
    /\ epc = "idle"
    /\ \E collected \in {[ok |-> FALSE]} \cup {[ok |-> TRUE, samples |-> sc] : sc \in Scrapes} :
          IF collected.ok
          THEN LET r == check_filters(filter_set, relative_state, collected.samples) IN
               /\ scrape' = collected.samples
               /\ result' = r.result
               /\ relative_state' = r.state
               /\ latest' = LatestAfter(filter_set, latest, collected.samples)
               /\ compared' = compared \cup
                     {collected.samples[i].metric : i \in
                        {k \in 1..Len(collected.samples) :
                            ReachesRateBound(filter_set, collected.samples[k])}}
               /\ outcome' = "ok"
          ELSE /\ scrape' = <<>>
               /\ result' = <<>>
               /\ outcome' = "err"
               /\ UNCHANGED <<relative_state, latest, compared>>
    /\ pre_state' = relative_state
    /\ epc' = "returned"
    /\ UNCHANGED <<filter_set, alert_vars, bound_vars>>

\* the caller takes the Result and is free to call check again
ElementReturn ==
    /\ epc = "returned"
    /\ epc' = "idle"
    /\ scrape' = <<>>
    /\ pre_state' = EmptyMap
    /\ result' = <<>>
    /\ outcome' = "none"
    /\ UNCHANGED <<filter_set, relative_state, latest, compared, alert_vars, bound_vars>>

\* AlertChecker::check
AlertsCheck ==
    /\ apc = "idle"
    /\ \E f \in Fetched :
          LET r == alerts_check(alert_set, f) IN
          /\ fetched' = f
          /\ alerts_out' = r.alerts
          /\ alert_outcome' = r.outcome
    /\ apc' = "returned"
    /\ UNCHANGED <<alert_set, engine_vars, bound_vars>>

\* the caller takes the Result and is free to call check again
AlertsReturn ==
    /\ apc = "returned"
    /\ apc' = "idle"
    /\ fetched' = [kind |-> "none"]
    /\ alerts_out' = <<>>
    /\ alert_outcome' = "none"
    /\ UNCHANGED <<alert_set, engine_vars, bound_vars>>

\* one call of Bound::check
BoundCheck ==
    /\ bpc = "ready"
    /\ bres' = check(bargs.bound, bargs.value, bargs.time, bargs.old_value, bargs.old_time)
    /\ bpc' = "done"
    /\ UNCHANGED <<bargs, engine_vars, alert_vars>>

Next == ElementCheck \/ ElementReturn
NextAlert == AlertsCheck \/ AlertsReturn
NextBound == BoundCheck

Spec == Init /\ [][Next]_vars
SpecAlert == InitAlert /\ [][NextAlert]_vars
SpecBound == InitBound /\ [][NextBound]_vars

\* ------------------------------------------------------------------ claims
\* a call of check has returned Ok: scrape, pre_state and result are that call's
Returned == epc = "returned" /\ outcome = "ok"

\* relative_state as the i-th sample of the call's scrape found it
StateBefore(i) == check_filters(filter_set, pre_state, SubSeq(scrape, 1, i - 1)).state

\* the elements of seq whose bit is set, in order
RECURSIVE SelectBits(_, _)
SelectBits(seq, bits) ==
    IF seq = <<>> THEN <<>>
    ELSE (IF Head(bits) THEN <<Head(seq)>> ELSE <<>>) \o SelectBits(Tail(seq), Tail(bits))

OnlyRate(fs, m) == m \in DOMAIN fs /\ \A j \in 1..Len(fs[m]) : IsRate(fs[m][j])
AllAbs(fs) == \A m \in DOMAIN fs : ~HasRate(fs, m)

\* bound b on sample s, a rate bound judged against the sample stored in rs
TriggersAgainst(b, s, rs) ==
    IF IsRate(b)
    THEN /\ s.metric \in DOMAIN rs
         /\ check(b, s.value, s.timestamp,
                  Some(rs[s.metric].value), Some(rs[s.metric].timestamp))
    ELSE check(b, s.value, s.timestamp, None, None)

\* C1: the result of a call holds exactly the samples whose metric has bounds
\* of which at least one, anywhere in the list, triggers; a rate bound is judged
\* against the sample that was stored for the name before the sample was evaluated.
C1_RetainedIffSomeBoundOfAll ==
    Returned =>
        result = SelectBits(scrape,
                    [i \in 1..Len(scrape) |->
                        /\ scrape[i].metric \in DOMAIN filter_set
                        /\ \E j \in 1..Len(filter_set[scrape[i].metric]) :
                              TriggersAgainst(filter_set[scrape[i].metric][j],
                                              scrape[i], StateBefore(i))])

\* C2: every metric name with a rate bound that has been in some scrape has the
\* last sample of that name given to check_filters as its stored sample.
C2_StoredIsMostRecent ==
    \A m \in DOMAIN latest :
        m \in DOMAIN relative_state /\ relative_state[m] = latest[m]

\* C3: in the call in which a metric name with only rate bounds is first seen
\* (no stored sample when the call starts), no sample of that name is in the result.
C3_NothingReportedOnFirstSight ==
    Returned =>
        \A i \in 1..Len(scrape) :
            (OnlyRate(filter_set, scrape[i].metric) /\ scrape[i].metric \notin DOMAIN pre_state)
                => \A k \in 1..Len(result) : result[k] # scrape[i]

\* C4: the result is a subsequence of the scrape (each input sample at most
\* once, in the scrape's order) and holds no sample of an unfiltered name.
C4_ResultIsFilteredSubsequence ==
    Returned =>
        /\ \E idx \in [1..Len(result) -> 1..Len(scrape)] :
              /\ \A k \in 1..Len(result) : result[k] = scrape[idx[k]]
              /\ \A k \in 1..Len(result), l \in 1..Len(result) : k < l => idx[k] < idx[l]
        /\ \A k \in 1..Len(result) : result[k].metric \in DOMAIN filter_set

C4_Witness ==
    /\ Returned
    /\ Len(scrape) = 2
    /\ Len(result) = 1
    /\ result[1] = scrape[2]
    /\ scrape[1].metric \notin DOMAIN filter_set
    /\ Len(filter_set[scrape[2].metric]) = 2
    /\ \A j \in 1..2 : TriggersAgainst(filter_set[scrape[2].metric][j], scrape[2], StateBefore(2))

\* C5: with only AbsLower/AbsUpper bounds configured, giving the scrape of the
\* call that just returned to check_filters again, at once or after any other
\* scrape, returns the same result.
C5_AbsoluteIsIdempotent ==
    (Returned /\ AllAbs(filter_set)) =>
        /\ check_filters(filter_set, relative_state, scrape).result = result
        /\ \A after_other \in {check_filters(filter_set, relative_state, other).state :
                                  other \in Scrapes} :
              check_filters(filter_set, after_other, scrape).result = result

C5_Witness ==
    /\ Returned
    /\ AllAbs(filter_set)
    /\ Len(scrape) = 2
    /\ Len(result) = 1

\* C6: a sample whose metric name has only absolute bounds, or no bound, leaves
\* relative_state as it found it, and whether it is retained is the same for
\* every content of relative_state.
C6_AbsoluteIgnoresState ==
    Returned =>
        \A i \in 1..Len(scrape) :
            ~HasRate(filter_set, scrape[i].metric) =>
                LET before == StateBefore(i)
                    retained == filter_sample(filter_set, before, scrape[i]).res
                IN /\ StateBefore(i + 1) = before
                   /\ \A other \in {EmptyMap} \cup {(s.metric :> s) : s \in Samples} :
                         filter_sample(filter_set, other, scrape[i]).res = retained

C6_Witness ==
    /\ Returned
    /\ pre_state # EmptyMap
    /\ Len(scrape) = 1
    /\ scrape[1].metric \in DOMAIN filter_set
    /\ ~HasRate(filter_set, scrape[1].metric)
    /\ result = scrape
    /\ relative_state = pre_state

\* an alert satisfies a filter: name, firing state and every required label
Matches(a, f) ==
    /\ "alertname" \in DOMAIN a.labels
    /\ a.labels["alertname"] = f.name
    /\ a.state = "firing"
    /\ \A k \in DOMAIN f.labels : k \in DOMAIN a.labels /\ a.labels[k] = f.labels[k]

\* C7: on a response with status "success" the call succeeds and returns, in
\* response order, exactly the alerts that satisfy at least one configured filter.
C7_ReturnsExactlyTheMatched ==
    (apc = "returned" /\ fetched.kind = "response" /\ fetched.status = "success") =>
        /\ alert_outcome = "ok"
        /\ alerts_out = SelectBits(fetched.alerts,
                           [i \in 1..Len(fetched.alerts) |->
                               \E j \in 1..Len(alert_set) :
                                   Matches(fetched.alerts[i], alert_set[j])])

C7_Witness ==
    /\ apc = "returned"
    /\ fetched.kind = "response"
    /\ fetched.status = "success"
    /\ Len(fetched.alerts) = 2
    /\ Len(alerts_out) = 1
    /\ alerts_out[1] = fetched.alerts[2]
    /\ fetched.alerts[1].state = "pending"
    /\ \E j \in 1..Len(alert_set) : DOMAIN alert_set[j].labels = {"alertname", "job"}
                                       /\ Matches(alerts_out[1], alert_set[j])

\* C8: on a response whose status is not "success" the call fails and returns
\* no alert, whatever the alerts of the response and the configured filters.
C8_NonSuccessFails ==
    (apc = "returned" /\ fetched.kind = "response" /\ fetched.status # "success") =>
        /\ alert_outcome = "err"
        /\ alerts_out = <<>>

C8_Witness ==
    /\ apc = "returned"
    /\ fetched.kind = "response"
    /\ fetched.status # "success"
    /\ alert_outcome = "err"
    /\ \E i \in 1..Len(fetched.alerts), j \in 1..Len(alert_set) :
          Matches(fetched.alerts[i], alert_set[j])

IsScalar(v) == v.kind \in {"Counter", "Gauge"}
RateLimit(b) == IF b.kind = "RateLower" THEN b.min_increment ELSE b.max_increment
Scaled(b, k) ==
    IF b.kind = "RateLower"
    THEN RateLower(Fin(k * b.min_increment.n), k * b.time_period)
    ELSE RateUpper(Fin(k * b.max_increment.n), k * b.time_period)

\* the sign of (current - previous)/elapsed - limit/period for elapsed > 0 and
\* period > 0, or "nan" when the observed rate is not a number
RateVersusThreshold(cur, prev, elapsed, limit, period) ==
    IF IsNaN(cur) \/ IsNaN(prev) \/ (~IsFinite(cur) /\ ~IsFinite(prev) /\ cur = prev) THEN "nan"
    ELSE IF ~IsFinite(cur) THEN (IF cur.n > 0 THEN "above" ELSE "below")
    ELSE IF ~IsFinite(prev) THEN (IF prev.n > 0 THEN "below" ELSE "above")
    ELSE IF (cur.n - prev.n) * period > limit.n * elapsed THEN "above"
    ELSE IF (cur.n - prev.n) * period < limit.n * elapsed THEN "below"
    ELSE "equal"

\* C9: a rate bound is false when the current or the previous value is not a
\* Counter or Gauge or the previous value or time is missing; otherwise, for
\* elapsed > 0 and time_period > 0, RateUpper is true iff the observed rate
\* exceeds limit/time_period and RateLower iff it is below it, and scaling limit
\* and time_period by the same factor leaves the result as it is.
C9_RateBound ==
    (bpc = "done" /\ IsRate(bargs.bound)) =>
        IF \/ ~IsScalar(bargs.value)
           \/ ~bargs.old_value.some
           \/ ~bargs.old_time.some
           \/ ~IsScalar(bargs.old_value.val)
        THEN bres = FALSE
        ELSE LET elapsed == bargs.time - bargs.old_time.val
                 period == bargs.bound.time_period
                 side == RateVersusThreshold(bargs.value.num, bargs.old_value.val.num,
                                             elapsed, RateLimit(bargs.bound), period)
             IN (elapsed > 0 /\ period > 0) =>
                   /\ bargs.bound.kind = "RateUpper" => (bres <=> side = "above")
                   /\ bargs.bound.kind = "RateLower" => (bres <=> side = "below")
                   /\ \A k \in 2..3 :
                         check(Scaled(bargs.bound, k), bargs.value, bargs.time,
                               bargs.old_value, bargs.old_time) = bres
                   /\ check(RateUpper(Fin(100), 60), Gauge(Fin(200)), 60,
                            Some(Gauge(Fin(0))), Some(0))
                   /\ ~check(RateUpper(Fin(1000), 60), Gauge(Fin(200)), 60,
                             Some(Gauge(Fin(0))), Some(0))

C9_Witness ==
    /\ bpc = "done"
    /\ bargs.bound = RateUpper(Fin(1), 2)
    /\ bargs.value = Counter(Fin(2))
    /\ bargs.old_value = Some(Gauge(Fin(0)))
    /\ bargs.old_time = Some(0)
    /\ bargs.time = 2
    /\ bres = TRUE

\* the table of the absolute bounds
AbsTable(b, v) ==
    IF b.kind = "AbsLower"
    THEN \/ v.kind = "Gauge" /\ FLt(v.num, b.lower_bound)
         \/ v.kind = "Histogram" /\ \E i \in 1..Len(v.buckets) :
                FLt(v.buckets[i].less_than, b.lower_bound) /\ FGt(v.buckets[i].count, Fin(0))
    ELSE \/ v.kind \in {"Counter", "Gauge"} /\ FGt(v.num, b.upper_bound)
         \/ v.kind = "Histogram" /\ \E i \in 1..Len(v.buckets) :
                FGt(v.buckets[i].less_than, b.upper_bound) /\ FGt(v.buckets[i].count, Fin(0))

\* C10: an absolute bound's value is the table's entry for the bound and the
\* current value, whatever the time and the previous value and time given.
C10_AbsoluteBoundTable ==
    (bpc = "done" /\ ~IsRate(bargs.bound)) => (bres <=> AbsTable(bargs.bound, bargs.value))

C10_Witness ==
    /\ bpc = "done"
    /\ bargs.bound = AbsUpper(Fin(1))
    /\ bargs.value = Counter(Fin(1))
    /\ bargs.old_value = Some(Gauge(Fin(0)))
    /\ bargs.old_time = Some(0)
    /\ bres = FALSE

\* C11: a rate bound given a previous value and a previous time that is not
\* before the current time does not trigger, whatever the increment and the
\* limit; and a sample is in a call's result only if an absolute bound of its
\* metric triggers on it or its metric has a rate bound and the sample stored
\* for the name is strictly earlier than it.
C11_NoRateWithoutElapsedTime ==
    /\ (/\ bpc = "done"
        /\ IsRate(bargs.bound)
        /\ bargs.old_value.some
        /\ bargs.old_time.some
        /\ bargs.time <= bargs.old_time.val) => bres = FALSE
    /\ Returned =>
          \A i \in 1..Len(scrape) :
              LET s == scrape[i]
                  before == StateBefore(i)
              IN filter_sample(filter_set, before, s).res =>
                    \E j \in 1..Len(filter_set[s.metric]) :
                        LET b == filter_set[s.metric][j] IN
                        IF IsRate(b)
                        THEN /\ s.metric \in DOMAIN before
                             /\ before[s.metric].timestamp < s.timestamp
                        ELSE check(b, s.value, s.timestamp, None, None)

\* C12: the metric names with a stored sample are exactly those that a call has
\* compared against a rate bound (none after construction); each of them has a
\* rate bound configured; and a call, failed or not, removes none of them.
C12_KeysAreTheComparedNames ==
    /\ DOMAIN relative_state = compared
    /\ \A m \in DOMAIN relative_state : HasRate(filter_set, m)
    /\ epc = "returned" => DOMAIN pre_state \subseteq DOMAIN relative_state

C12_Witness ==
    /\ Returned
    /\ Len(scrape) = 2
    /\ scrape[1].metric # scrape[2].metric
    /\ HasRate(filter_set, scrape[1].metric)
    /\ ~ReachesRateBound(filter_set, scrape[1])
    /\ scrape[2].metric \notin DOMAIN filter_set
    /\ compared = {scrape[1].metric}
    /\ DOMAIN pre_state = {scrape[1].metric}
    /\ relative_state = pre_state

\* C13: a call whose fetch or parse fails returns an error and no sample and
\* leaves relative_state as it found it, so that any sample scraped by the next
\* call is judged as it would have been without the failed call.
C13_FailedCallKeepsState ==
    (epc = "returned" /\ outcome = "err") =>
        /\ result = <<>>
        /\ relative_state = pre_state
        /\ \A s \in Samples :
              check_filters(filter_set, relative_state, <<s>>)
                = check_filters(filter_set, pre_state, <<s>>)

C13_Witness ==
    /\ epc = "returned"
    /\ outcome = "err"
    /\ pre_state # EmptyMap
    /\ relative_state = pre_state
    /\ \E s \in Samples :
          /\ check_filters(filter_set, relative_state, <<s>>).result # <<>>
          /\ check_filters(filter_set, EmptyMap, <<s>>).result = <<>>

====
